---- MODULE Spec2Model ----
(***************************************************************************)
(* Model of the data-processing pipeline of the COVID dashboard            *)
(* (utils/dataProcessor.js and utils/constants.js).  Every exported pure   *)
(* function is an operator that computes what the JavaScript computes,     *)
(* including the TypeError a property read on null/undefined raises; the   *)
(* state machine calls one function on one input and records its outcome,  *)
(* what the caller's argument looks like afterwards (caller) and, where a   *)
(* property relates two calls, the outcome of the second call (again).     *)
(*                                                                         *)
(* The second state machine (HookSpec) is the mounted Dashboard: the React *)
(* state of hooks/useCovidData.js, the HTTP requests in flight, the        *)
(* auto-refresh interval, and the metric controls of Dashboard.jsx.        *)
(***************************************************************************)
EXTENDS Integers, Sequences, FiniteSets, TLC

VARIABLES pc, op, arg, now, ret, caller, again

\* state: the hook's React state; rendered: what the callbacks of the latest
\* render close over; requests: the HTTP requests in flight; intervals: the
\* active setInterval ids; cleanup: the id the latest effect's cleanup clears;
\* mounted: the component is mounted; dash: the Dashboard's own state;
\* event: the last call into the hook, or continuation of one, that ran
VARIABLES state, rendered, requests, intervals, cleanup, mounted, dash, event

callVars == <<pc, op, arg, now, ret, caller, again>>

hookVars == <<state, rendered, requests, intervals, cleanup, mounted, dash, event>>

vars == <<pc, op, arg, now, ret, caller, again,
          state, rendered, requests, intervals, cleanup, mounted, dash, event>>

(***************************************************************************)
(* Bounds of the model.                                                    *)
(***************************************************************************)
\* longest raw-record sequence handed to processCovidData
MaxRecords == 3
\* longest time series handed to calculateDailyNewCases
MaxSeries == 3
\* most date keys in a tally mapping of a historical payload
MaxKeys == 2
\* longest sequence handed to filterByDateRange and to sortCountries
MaxItems == 3
\* most HTTP requests in flight at once
MaxInFlight == 2
\* the ids setInterval hands out are 1..MaxIntervalId
MaxIntervalId == 3

(***************************************************************************)
(* JavaScript values.  A value is a record tagged by t.                    *)
(***************************************************************************)
Undef == [t |-> "undefined"]
Null == [t |-> "null"]
NaN == [t |-> "nan"]
Num(n) == [t |-> "number", n |-> n]
Str(s) == [t |-> "string", s |-> s]
\* o: a function from property names to values; a missing name is an absent property
Obj(o) == [t |-> "object", o |-> o]
Arr(items) == [t |-> "array", items |-> items]
\* a Date: valid is FALSE for an Invalid Date, day is its calendar day number
DateOf(valid, day) == [t |-> "date", valid |-> valid, day |-> day]

\* marks a property left out when an input object is built; never a value of the program
Absent == [t |-> "absent"]
MkObj(f) == Obj([k \in {x \in DOMAIN f : f[x] # Absent} |-> f[k]])

Nullish(v) == v.t \in {"undefined", "null"}

\* ToBoolean
Truthy(v) ==
    CASE v.t \in {"undefined", "null", "nan"} -> FALSE
      [] v.t = "number" -> v.n # 0
      [] v.t = "string" -> v.s # ""
      [] v.t = "boolean" -> v.b
      [] OTHER -> TRUE

\* a || b
Or(a, b) == IF Truthy(a) THEN a ELSE b

\* v.f on a value that is not null/undefined (the caller decides the nullish case)
Get(v, f) == IF v.t = "object" /\ f \in DOMAIN v.o THEN v.o[f] ELSE Undef

\* v?.f
OptGet(v, f) == IF Nullish(v) THEN Undef ELSE Get(v, f)

\* a === b on primitives
StrictEq(a, b) == a.t # "nan" /\ a = b

\* SameValueZero, the comparison of Array.prototype.includes, on primitives
SameValueZero(a, b) == a = b

IsArray(v) == v.t = "array"

Bool(b) == [t |-> "boolean", b |-> b]

\* results of a call: a returned value, or a raised TypeError
Returned(v) == [threw |-> FALSE, val |-> v]
Threw == [threw |-> TRUE, val |-> Undef]

SeqsUpTo(S, n) == UNION {[1..k -> S] : k \in 0..n}

(***************************************************************************)
(* constants.js                                                            *)
(***************************************************************************)
\* The flag glyphs are written "flag:<code>": one distinct string per entry.
EAST_AFRICAN_COUNTRIES ==
    << Obj([name |-> Str("Kenya"), code |-> Str("KE"), flag |-> Str("flag:KE"), color |-> Str("#dc2626")]),
       Obj([name |-> Str("Uganda"), code |-> Str("UG"), flag |-> Str("flag:UG"), color |-> Str("#2563eb")]),
       Obj([name |-> Str("Tanzania"), code |-> Str("TZ"), flag |-> Str("flag:TZ"), color |-> Str("#16a34a")]),
       Obj([name |-> Str("Rwanda"), code |-> Str("RW"), flag |-> Str("flag:RW"), color |-> Str("#7c3aed")]),
       Obj([name |-> Str("Burundi"), code |-> Str("BI"), flag |-> Str("flag:BI"), color |-> Str("#ea580c")]),
       Obj([name |-> Str("South Sudan"), code |-> Str("SS"), flag |-> Str("flag:SS"), color |-> Str("#0891b2")]) >>

(***************************************************************************)
(* processCovidData                                                        *)
(***************************************************************************)
\* EAST_AFRICAN_COUNTRIES.map(country => country.name)
eastAfricanCountries == [i \in 1..Len(EAST_AFRICAN_COUNTRIES) |-> Get(EAST_AFRICAN_COUNTRIES[i], "name")]

\* array.includes(x)
Includes(array, x) == \E i \in 1..Len(array) : SameValueZero(array[i], x)

\* variant: a find callback that compares the entry's code with the name
FindCountryByCode(name) ==
    LET hits == {i \in 1..Len(EAST_AFRICAN_COUNTRIES) :
                    StrictEq(Get(EAST_AFRICAN_COUNTRIES[i], "code"), name)}
    IN  IF hits = {} THEN Undef
        ELSE EAST_AFRICAN_COUNTRIES[CHOOSE i \in hits : \A j \in hits : i <= j]

\* EAST_AFRICAN_COUNTRIES.find(c => c.name === name): the first match, else undefined
FindCountry(name) ==
    LET hits == {i \in 1..Len(EAST_AFRICAN_COUNTRIES) :
                    StrictEq(Get(EAST_AFRICAN_COUNTRIES[i], "name"), name)}
    IN  IF hits = {} THEN Undef
        ELSE EAST_AFRICAN_COUNTRIES[CHOOSE i \in hits : \A j \in hits : i <= j]

\* variant: a match that ignores letter case
KeepsWrongCase(country) ==
    Includes(eastAfricanCountries, Get(country, "country"))
    \/ Get(country, "country") \in {Str("kenya"), Str("KENYA")}

\* the filter callback: country => eastAfricanCountries.includes(country.country)
KeepCountry(country) == Includes(eastAfricanCountries, Get(country, "country"))

\* variant: country.X without the default
CountDropsDefault(country, field) == Get(country, field)

\* country.X || 0
CountOf(country, field) == Or(Get(country, field), Num(0))

\* variant: the raw value whenever the property is present, even when falsy
UpdatedWhenPresent(country, clock) ==
    IF country.t = "object" /\ "updated" \in DOMAIN country.o
    THEN Get(country, "updated") ELSE Num(clock)

\* variant: the clock reading, whatever the record carries
UpdatedAlwaysNow(country, clock) == Num(clock)

\* country.updated || Date.now()
UpdatedOf(country, clock) == Or(Get(country, "updated"), Num(clock))

\* the map callback: one snapshot of one retained record
Snapshot(country, clock) ==
    LET countryInfo == FindCountry(Get(country, "country"))
    IN  [ country |-> Get(country, "country"),
          code |-> Or(OptGet(countryInfo, "code"), OptGet(Get(country, "countryInfo"), "iso2")),
          flag |-> Or(OptGet(countryInfo, "flag"), Str("")),
          color |-> Or(OptGet(countryInfo, "color"), Str("#3b82f6")),
          cases |-> CountOf(country, "cases"),
          deaths |-> CountOf(country, "deaths"),
          recovered |-> CountOf(country, "recovered"),
          active |-> CountOf(country, "active"),
          todayCases |-> CountOf(country, "todayCases"),
          todayDeaths |-> CountOf(country, "todayDeaths"),
          todayRecovered |-> CountOf(country, "todayRecovered"),
          population |-> CountOf(country, "population"),
          updated |-> UpdatedOf(country, clock) ]

\* rawData.filter(...).map(...) on an array; clock is what Date.now() returns
FilterAndMap(items, clock) ==
    IF \E i \in 1..Len(items) : Nullish(items[i])
    THEN Threw  \* country.country on a null/undefined element
    ELSE LET kept == SelectSeq(items, KeepCountry)
         IN  Returned([i \in 1..Len(kept) |-> Snapshot(kept[i], clock)])

\* variant: without the Array.isArray guard, rawData.filter raises on a non-array
processCovidDataUnguarded(rawData, clock) ==
    IF ~IsArray(rawData) THEN Threw ELSE FilterAndMap(rawData.items, clock)

processCovidData(rawData, clock) ==
    IF ~IsArray(rawData) THEN Returned(<<>>) ELSE FilterAndMap(rawData.items, clock)

(***************************************************************************)
(* processHistoricalData                                                   *)
(***************************************************************************)
\* a date-keyed tally mapping: keys in property-creation order, o their values
Tally(keys, o) == [t |-> "object", keys |-> keys, o |-> o]

\* Object.keys(v): own property names in creation order (the date keys are not array indices)
ObjectKeys(v) == IF v.t = "object" /\ "keys" \in DOMAIN v THEN v.keys ELSE <<>>

\* ToNumber on the values that reach arithmetic here
IsNumeric(v) == v.t \in {"number", "null"}
ToNumber(v) == IF v.t = "number" THEN v.n ELSE 0

\* a - b
Minus(a, b) == IF IsNumeric(a) /\ IsNumeric(b) THEN Num(ToNumber(a) - ToNumber(b)) ELSE NaN

\* new Date(key) for a key of the form M/D/YY: the day number since 1970-01-01
ParsesAsDate(key) == key \in {"1/1/21", "1/2/21", "1/3/21"}
DayNumber(key) ==
    CASE key = "1/1/21" -> 18628
      [] key = "1/2/21" -> 18629
      [] key = "1/3/21" -> 18630
      [] OTHER -> 0
NewDate(key) == IF ParsesAsDate(key) THEN DateOf(TRUE, DayNumber(key)) ELSE DateOf(FALSE, 0)

\* tally[date] || 0
TallyOr0(tally, date) == Or(Get(tally, date), Num(0))

\* the map callback: one DailyPoint of one date key
DailyPoint(cases, deaths, recovered, date) ==
    [ date |-> NewDate(date),
      cases |-> TallyOr0(cases, date),
      deaths |-> TallyOr0(deaths, date),
      recovered |-> TallyOr0(recovered, date),
      active |-> Minus(Minus(TallyOr0(cases, date), TallyOr0(deaths, date)),
                       TallyOr0(recovered, date)) ]

\* variant: a guard that tests the payload but not its timeline
NoTimelineChecksInputOnly(historicalData) == ~Truthy(historicalData)

\* the guard: !historicalData || !historicalData.timeline
NoTimeline(historicalData) ==
    ~Truthy(historicalData) \/ ~Truthy(Get(historicalData, "timeline"))

processHistoricalData(historicalData) ==
    IF NoTimeline(historicalData) THEN Returned(<<>>)
    ELSE LET timeline == Get(historicalData, "timeline")
             cases == Get(timeline, "cases")
             deaths == Get(timeline, "deaths")
             recovered == Get(timeline, "recovered")
             dates == ObjectKeys(Or(cases, Obj(<<>>)))
         IN  IF Nullish(timeline) THEN Threw  \* destructuring null/undefined
             ELSE IF dates = <<>> THEN Returned(<<>>)
             ELSE IF Nullish(deaths) \/ Nullish(recovered)
                  THEN Threw  \* deaths[date] or recovered[date] on undefined
             ELSE Returned([i \in 1..Len(dates) |->
                               DailyPoint(cases, deaths, recovered, dates[i])])

(***************************************************************************)
(* calculateDailyNewCases                                                  *)
(***************************************************************************)
\* Math.max(0, x)
MathMax0(x) == IF x.t = "nan" THEN NaN ELSE IF ToNumber(x) > 0 THEN Num(ToNumber(x)) ELSE Num(0)

\* { ...current, newCases, newDeaths, newRecovered }
WithDeltas(current, newCases, newDeaths, newRecovered) ==
    LET added == [newCases |-> newCases, newDeaths |-> newDeaths, newRecovered |-> newRecovered]
    IN  Obj([k \in DOMAIN current.o \cup DOMAIN added |->
                IF k \in DOMAIN added THEN added[k] ELSE current.o[k]])

\* variant: the raw difference, not floored at 0
DeltaNotFloored(current, previous, field) == Minus(Get(current, field), Get(previous, field))

\* Math.max(0, current.X - previous.X)
Delta(current, previous, field) == MathMax0(Minus(Get(current, field), Get(previous, field)))

\* variant: element 0 reports no new cases, deaths or recoveries
DailyDeltaFirstZero(timeSeriesData, index) ==
    LET current == timeSeriesData[index]
    IN  IF index = 1
        THEN WithDeltas(current, Num(0), Num(0), Num(0))
        ELSE LET previous == timeSeriesData[index - 1]
             IN  WithDeltas(current, Delta(current, previous, "cases"),
                            Delta(current, previous, "deaths"),
                            Delta(current, previous, "recovered"))

\* the map callback (current, index), index counted from 1 here
DailyDelta(timeSeriesData, index) ==
    LET current == timeSeriesData[index]
    IN  IF index = 1
        THEN WithDeltas(current, Get(current, "cases"), Get(current, "deaths"),
                        Get(current, "recovered"))
        ELSE LET previous == timeSeriesData[index - 1]
             IN  WithDeltas(current, Delta(current, previous, "cases"),
                            Delta(current, previous, "deaths"),
                            Delta(current, previous, "recovered"))

\* variant: a guard that lets a one-element series through
TooShortOnlyEmpty(timeSeriesData) ==
    ~IsArray(timeSeriesData) \/ Len(timeSeriesData.items) < 1

\* the guard: !Array.isArray(timeSeriesData) || timeSeriesData.length < 2
TooShort(timeSeriesData) ==
    ~IsArray(timeSeriesData) \/ Len(timeSeriesData.items) < 2

calculateDailyNewCases(timeSeriesData) ==
    IF TooShort(timeSeriesData) THEN Returned(<<>>)
    ELSE IF \E i \in 1..Len(timeSeriesData.items) : Nullish(timeSeriesData.items[i])
         THEN Threw  \* current.cases or previous.cases on a null/undefined element
    ELSE Returned([i \in 1..Len(timeSeriesData.items) |-> DailyDelta(timeSeriesData.items, i)])

(***************************************************************************)
(* filterByDateRange                                                       *)
(***************************************************************************)
\* new Date(v): a copy of a Date, a parsed string, the epoch for null, and an
\* Invalid Date for undefined and for an object that is no Date
DateFrom(v) ==
    CASE v.t = "date" -> v
      [] v.t = "string" -> NewDate(v.s)
      [] v.t = "null" -> DateOf(TRUE, 0)
      [] OTHER -> DateOf(FALSE, 0)

\* variant: a >= b that leaves the bound itself out
DateAfter(a, b) == a.t = "date" /\ b.t = "date" /\ a.valid /\ b.valid /\ a.day > b.day

\* a >= b on Dates: their time values compared, false when either is NaN
DateGE(a, b) == a.t = "date" /\ b.t = "date" /\ a.valid /\ b.valid /\ a.day >= b.day

\* the filter callback: itemDate >= startDate && itemDate <= endDate
InDateRange(item, startDate, endDate) ==
    LET itemDate == DateFrom(Get(item, "date"))
    IN  DateGE(itemDate, startDate) /\ DateGE(endDate, itemDate)

\* variant: a guard that answers an empty array instead of the input
FailClosedNoFilter(data, startDate, endDate) == Arr(<<>>)

\* what the guard of filterByDateRange returns: data itself
NoFilter(data, startDate, endDate) == data

filterByDateRange(data, startDate, endDate) ==
    IF ~IsArray(data) \/ ~Truthy(startDate) \/ ~Truthy(endDate)
    THEN Returned(NoFilter(data, startDate, endDate))
    ELSE IF \E i \in 1..Len(data.items) : Nullish(data.items[i])
         THEN Threw  \* item.date on a null/undefined element
    ELSE LET Keep(item) == InDateRange(item, startDate, endDate)
         IN  Returned(Arr(SelectSeq(data.items, Keep)))

(***************************************************************************)
(* sortCountries                                                           *)
(***************************************************************************)
\* a default parameter value applies when the argument is undefined
DefaultTo(v, d) == IF v.t = "undefined" THEN d ELSE v

\* ToPropertyKey of a[metric]
PropertyKey(v) == IF v.t = "string" THEN v.s ELSE v.t

\* variant: a[metric] without the default
SortKeyNoDefault(item, metric) == Get(item, PropertyKey(metric))

\* a[metric] || 0
SortKey(item, metric) == Or(Get(item, PropertyKey(metric)), Num(0))

\* variant: descending only when order is 'desc'
CompareDescOnlyWhenAsked(a, b, metric, order) ==
    LET aValue == SortKey(a, metric)
        bValue == SortKey(b, metric)
        d == IF order = Str("desc") THEN Minus(bValue, aValue) ELSE Minus(aValue, bValue)
    IN  IF d.t = "nan" THEN 0 ELSE d.n

\* the comparator (a, b); sort reads a NaN result as 0
Compare(a, b, metric, order) ==
    LET aValue == SortKey(a, metric)
        bValue == SortKey(b, metric)
        d == IF order = Str("asc") THEN Minus(aValue, bValue) ELSE Minus(bValue, aValue)
    IN  IF d.t = "nan" THEN 0 ELSE d.n

\* Array.prototype.sort is stable: x goes after the elements that do not compare above it
RECURSIVE InsertSorted(_, _, _, _)
InsertSorted(x, sorted, metric, order) ==
    IF sorted = <<>> THEN <<x>>
    ELSE IF Compare(Head(sorted), x, metric, order) <= 0
         THEN <<Head(sorted)>> \o InsertSorted(x, Tail(sorted), metric, order)
         ELSE <<x>> \o sorted

RECURSIVE ArraySort(_, _, _)
ArraySort(items, metric, order) ==
    IF items = <<>> THEN <<>>
    ELSE InsertSorted(items[Len(items)],
                      ArraySort(SubSeq(items, 1, Len(items) - 1), metric, order),
                      metric, order)

\* variant: countries.sort(...) on the caller's array itself
CallerAfterSortInPlace(countries, metric, order) ==
    IF IsArray(countries) /\ \A i \in 1..Len(countries.items) : ~Nullish(countries.items[i])
    THEN Arr(ArraySort(countries.items, DefaultTo(metric, Str("cases")),
                       DefaultTo(order, Str("desc"))))
    ELSE countries

\* the caller's array after the call: [...countries] is sorted, countries is not written
CallerAfterSort(countries, metric, order) == countries

sortCountries(countries, metric, order) ==
    IF ~IsArray(countries) THEN Returned(<<>>)
    ELSE IF Len(countries.items) >= 2 /\ \E i \in 1..Len(countries.items) : Nullish(countries.items[i])
         THEN Threw  \* a[metric] on a null/undefined element
    ELSE Returned(ArraySort(countries.items, DefaultTo(metric, Str("cases")),
                            DefaultTo(order, Str("desc"))))

(***************************************************************************)
(* calculatePercentageChange                                               *)
(***************************************************************************)
Abs(x) == IF x < 0 THEN -x ELSE x

RECURSIVE GCD(_, _)
GCD(x, y) == IF y = 0 THEN x ELSE GCD(y, x % y)

\* the number x / y for y # 0, in lowest terms; an integer when y divides x
Fraction(x, y) ==
    LET g == GCD(Abs(x), Abs(y))
        n == (IF y < 0 THEN -x ELSE x) \div g
        d == Abs(y) \div g
    IN  IF d = 1 THEN Num(n) ELSE [t |-> "fraction", num |-> n, den |-> d]

Infinity(negative) == [t |-> "infinity", negative |-> negative]

\* a / b
Divide(a, b) ==
    IF ~IsNumeric(a) \/ ~IsNumeric(b) THEN NaN
    ELSE LET x == ToNumber(a)
             y == ToNumber(b)
         IN  IF y = 0 THEN (IF x = 0 THEN NaN ELSE Infinity(x < 0))
             ELSE Fraction(x, y)

\* v * k for a positive integer k
Times(v, k) ==
    CASE v.t = "number" -> Num(v.n * k)
      [] v.t = "fraction" -> Fraction(v.num * k, v.den)
      [] v.t = "infinity" -> v
      [] OTHER -> NaN

\* variant: only an omitted previous counts as missing
NoPreviousOnlyUndefined(previous) == previous.t = "undefined"

\* !previous || previous === 0
NoPrevious(previous) == ~Truthy(previous) \/ StrictEq(previous, Num(0))

calculatePercentageChange(current, previous) ==
    IF NoPrevious(previous) THEN Returned(Num(0))
    ELSE Returned(Times(Divide(Minus(current, previous), previous), 100))

(***************************************************************************)
(* isValidCountry                                                          *)
(***************************************************************************)
\* variant: the codes instead of the names
validCodes == [i \in 1..Len(EAST_AFRICAN_COUNTRIES) |-> Get(EAST_AFRICAN_COUNTRIES[i], "code")]

\* EAST_AFRICAN_COUNTRIES.map(c => c.name)
validCountries == [i \in 1..Len(EAST_AFRICAN_COUNTRIES) |-> Get(EAST_AFRICAN_COUNTRIES[i], "name")]

isValidCountry(countryName) == Returned(Bool(Includes(validCountries, countryName)))

(***************************************************************************)
(* Inputs the callers can hand to the pipeline.                            *)
(***************************************************************************)
\* values that are not arrays: null, undefined, objects, a number, a string
NonSequences ==
    {Undef, Null, Num(5), Str("Kenya"), Obj(<<>>), Obj([length |-> Num(2)])}

\* RawCountryRecord: records told apart by their cases value
PlainRaw ==
    { Obj([country |-> Str("Kenya"), cases |-> Num(11)]),
      Obj([country |-> Str("Uganda"), cases |-> Num(12)]),
      Obj([country |-> Str("South Sudan"), cases |-> Num(13)]),
      Obj([country |-> Str("kenya"), cases |-> Num(14)]),
      Obj([country |-> Str("France"), cases |-> Num(15)]) }

CountFields ==
    {"cases", "deaths", "recovered", "active", "todayCases", "todayDeaths",
     "todayRecovered", "population"}

\* what the API may carry in a numeric field
FieldVals == {Absent, Null, NaN, Num(0), Num(7), Num(-2), Str(""), Str("8")}

\* a record whose numeric fields all carry rest, but for one field that carries odd
RawRecord(country, oddField, odd, rest, countryInfo) ==
    MkObj([k \in CountFields \cup {"updated", "country", "countryInfo"} |->
              CASE k = "country" -> Str(country)
                [] k = "countryInfo" -> countryInfo
                [] k = oddField -> odd
                [] OTHER -> rest])

DetailedRaw ==
    { RawRecord(c, f, v, w, ci) :
        c \in {"Kenya", "Tanzania", "KENYA"},
        f \in CountFields \cup {"updated"},
        v \in FieldVals, w \in FieldVals,
        ci \in {Absent, Obj([iso2 |-> Str("ZZ")])} }

\* rawData: a non-array, an array of plain records with null/undefined holes,
\* or a detailed record alone or after one plain record
RawInputs ==
    NonSequences
    \cup {Arr(s) : s \in SeqsUpTo(PlainRaw \cup {Null, Undef}, MaxRecords)}
    \cup {Arr(<<r>>) : r \in DetailedRaw}
    \cup {Arr(<<p, r>>) : p \in PlainRaw, r \in DetailedRaw}

\* what Date.now() may return
Clock == {1700000000, 1700000600}

DateKeys == {"1/1/21", "1/2/21", "1/3/21"}

Range(s) == {s[i] : i \in 1..Len(s)}

KeySeqs == {s \in SeqsUpTo(DateKeys, MaxKeys) : \A i, j \in 1..Len(s) : i # j => s[i] # s[j]}

AscendingKeySeqs ==
    {s \in KeySeqs : \A i, j \in 1..Len(s) : i < j => DayNumber(s[i]) < DayNumber(s[j])}

\* cumulative cases: any key order (the API is not known to emit dates in order)
CasesTallies ==
    UNION {{Tally(ks, o) : o \in [Range(ks) -> {Num(0), Num(4), Num(9)}]} : ks \in KeySeqs}

DeathsTallies ==
    UNION {{Tally(ks, o) : o \in [Range(ks) -> {Num(1), Num(6)}]} : ks \in AscendingKeySeqs}

RecoveredTallies ==
    {Tally(ks, [k \in Range(ks) |-> Num(DayNumber(k) - 18626)]) : ks \in AscendingKeySeqs}

\* HistoricalPayload: every section is optional
HistoricalInputs ==
    {Undef, Null, Obj(<<>>), Obj([timeline |-> Null])}
    \cup { Obj([timeline |-> MkObj([cases |-> c, deaths |-> d, recovered |-> r])]) :
             c \in CasesTallies \cup {Absent, Null},
             d \in DeathsTallies \cup {Absent},
             r \in RecoveredTallies \cup {Absent} }

\* DailyPoint sequences; cumulative values may fall, and upstream noise may make them negative
SeriesPoints ==
    { Obj([date |-> NewDate("1/1/21"), cases |-> Num(c), deaths |-> Num(d),
           recovered |-> Num(r), active |-> Num(c - d - r)]) :
        c \in {-1, 0, 3}, d \in {0, 2}, r \in {0, 1} }

SeriesInputs ==
    NonSequences \cup {Arr(s) : s \in SeqsUpTo(SeriesPoints \cup {Null}, MaxSeries)}

\* items of a series handed to filterByDateRange: dated by a Date (valid or
\* not) or by a date string, told apart by their cases value
DatedItems ==
    { Obj([date |-> DateOf(TRUE, 18628), cases |-> Num(1)]),
      Obj([date |-> DateOf(TRUE, 18629), cases |-> Num(2)]),
      Obj([date |-> DateOf(TRUE, 18630), cases |-> Num(3)]),
      Obj([date |-> Str("1/2/21"), cases |-> Num(4)]),
      Obj([date |-> DateOf(FALSE, 0), cases |-> Num(5)]) }

\* startDate / endDate: absent, falsy, a Date, an Invalid Date
DateBounds ==
    {Undef, Null, Str(""), DateOf(FALSE, 0),
     DateOf(TRUE, 18628), DateOf(TRUE, 18629), DateOf(TRUE, 18630)}

FilterInputs ==
    [ data : NonSequences \cup {Arr(s) : s \in SeqsUpTo(DatedItems \cup {Null}, MaxItems)},
      startDate : DateBounds,
      endDate : DateBounds ]

\* items handed to sortCountries: cases missing, 0 or positive; deaths with a tie
SortItems ==
    { Obj([country |-> Str("Kenya"), deaths |-> Num(3)]),
      Obj([country |-> Str("Uganda"), cases |-> Num(0), deaths |-> Num(1)]),
      Obj([country |-> Str("Rwanda"), cases |-> Num(2), deaths |-> Num(1)]),
      Obj([country |-> Str("Burundi"), cases |-> Num(5), deaths |-> Num(2)]) }

SortInputs ==
    [ countries : NonSequences \cup {Arr(s) : s \in SeqsUpTo(SortItems \cup {Null}, MaxItems)},
      metric : {Undef, Str("cases"), Str("deaths")},
      order : {Undef, Str("asc"), Str("desc"), Str("ASC")} ]

PercentageInputs ==
    [ current : {Undef, Num(-3), Num(0), Num(5), Num(90), Num(101), Num(110)},
      previous : {Undef, Null, NaN, Num(0), Num(-100), Num(-4), Num(3), Num(100)} ]

\* what a caller may ask isValidCountry about
CountryNames ==
    {Str(n) : n \in {"Kenya", "Uganda", "Tanzania", "Rwanda", "Burundi", "South Sudan",
                     "kenya", "KE", "Sudan", "France", ""}}
    \cup {Undef, Null, Num(0)}

(***************************************************************************)
(* constants.js, and the bundled data/mockData.json                        *)
(***************************************************************************)
LOADING_STATES == [IDLE |-> "idle", LOADING |-> "loading", SUCCESS |-> "success", ERROR |-> "error"]

ERROR_MESSAGES ==
    [ NETWORK_ERROR |-> "Network error. Please check your connection and try again.",
      API_ERROR |-> "Unable to fetch data. Using cached data instead.",
      NO_DATA |-> "No data available for the selected criteria.",
      INVALID_COUNTRY |-> "Invalid country selection." ]

DATA_TYPES == [CASES |-> "cases", DEATHS |-> "deaths", RECOVERED |-> "recovered", ACTIVE |-> "active"]

\* mockData.countries: raw records of Registry countries
MockCountries ==
    Arr(<< Obj([country |-> Str("Kenya"), cases |-> Num(11), deaths |-> Num(2),
                recovered |-> Num(5), active |-> Num(4), updated |-> Num(1600000000)]),
           Obj([country |-> Str("Uganda"), cases |-> Num(12), deaths |-> Num(1),
                recovered |-> Num(5), active |-> Num(6), updated |-> Num(1600000000)]) >>)

\* mockData.historicalData: a payload for some countries and none for others
MockHistorical ==
    [ c \in {"Kenya"} |->
        Obj([timeline |->
                Obj([ cases |-> Tally(<<"1/1/21", "1/2/21">>, [k \in {"1/1/21", "1/2/21"} |-> Num(4)]),
                      deaths |-> Tally(<<"1/1/21", "1/2/21">>, [k \in {"1/1/21", "1/2/21"} |-> Num(1)]),
                      recovered |-> Tally(<<"1/1/21", "1/2/21">>, [k \in {"1/1/21", "1/2/21"} |-> Num(2)]) ])]) ]

(***************************************************************************)
(* hooks/useCovidData.js                                                   *)
(***************************************************************************)
\* useState's initial value
InitialState ==
    [ countries |-> <<>>,
      historicalData |-> [c \in {} |-> <<>>],
      selectedCountry |-> Null,
      loadingState |-> LOADING_STATES.IDLE,
      error |-> Null,
      lastUpdated |-> Null ]

\* new Date() at a clock reading
NewDateNow(clock) == [t |-> "date", valid |-> TRUE, ms |-> clock]

\* the arrow function prevState => ({ historicalData: {...prevState.historicalData,
\* [countryName]: processedData}, loadingState: SUCCESS }) as a value
Updater(countryName, processedData) ==
    [updater |-> TRUE, countryName |-> countryName, processedData |-> processedData]

IsUpdater(updates) == "updater" \in DOMAIN updates

\* what the updater returns when it is called on a state
CallUpdater(updates, prevState) ==
    [ historicalData |->
          [c \in DOMAIN prevState.historicalData \cup {updates.countryName} |->
              IF c = updates.countryName THEN updates.processedData
              ELSE prevState.historicalData[c]],
      loadingState |-> LOADING_STATES.SUCCESS ]

\* { ...updates }: the own enumerable properties; a function has none
Spread(updates) == IF IsUpdater(updates) THEN [k \in {} |-> Null] ELSE updates

\* variant: a setter that calls a function updater, its entry keyed by the selected country
updateStateKeyedBySelected(prevState, updates) ==
    LET own == IF IsUpdater(updates)
               THEN CallUpdater([updates EXCEPT !.countryName = PropertyKey(prevState.selectedCountry)],
                                prevState)
               ELSE updates
    IN  [k \in DOMAIN prevState |-> IF k \in DOMAIN own THEN own[k] ELSE prevState[k]]

\* setState(prevState => ({ ...prevState, ...updates }))
updateState(prevState, updates) ==
    LET own == Spread(updates)
    IN  [k \in DOMAIN prevState |-> IF k \in DOMAIN own THEN own[k] ELSE prevState[k]]

\* fetchCountriesData up to its await: the state it leaves while the request is out
CountriesRequested(st) ==
    updateState(st, [loadingState |-> LOADING_STATES.LOADING, error |-> Null])

\* an HTTP response: resolved with a body, or rejected (network error, timeout, status)
Resolved(data) == [ok |-> TRUE, data |-> data]
Rejected == [ok |-> FALSE, data |-> Undef]

\* variant: a catch block that reports the failure and keeps the countries it had
CountriesFallbackReportsError(st, clock) ==
    updateState(st, [ loadingState |-> LOADING_STATES.ERROR,
                      error |-> Str(ERROR_MESSAGES.API_ERROR) ])

\* the catch block of fetchCountriesData
CountriesFallback(st, clock) ==
    updateState(st, [ countries |-> processCovidData(MockCountries, clock).val,
                      loadingState |-> LOADING_STATES.SUCCESS,
                      lastUpdated |-> NewDateNow(clock),
                      error |-> Str(ERROR_MESSAGES.API_ERROR) ])

\* fetchCountriesData after its await
CountriesSettled(st, response, clock) ==
    IF response.ok /\ Truthy(response.data) /\ IsArray(response.data)
          /\ ~processCovidData(response.data, clock).threw
    THEN updateState(st, [ countries |-> processCovidData(response.data, clock).val,
                           loadingState |-> LOADING_STATES.SUCCESS,
                           lastUpdated |-> NewDateNow(clock),
                           error |-> Null ])
    ELSE CountriesFallback(st, clock)

\* variant: a guard that lets every name through
NoNameNever(countryName) == FALSE

\* if (!countryName) return
NoName(countryName) == ~Truthy(countryName)

\* fetchHistoricalData up to its await
HistoricalRequested(st, countryName) ==
    IF NoName(countryName) THEN st
    ELSE updateState(st, [loadingState |-> LOADING_STATES.LOADING])

\* `${ERROR_MESSAGES.NO_DATA} for ${countryName}`
NoDataFor(countryName) == [t |-> "string", s |-> ERROR_MESSAGES.NO_DATA, for |-> countryName]

\* variant: a catch block that reports success without data when there is no mock series
HistoricalFallbackAlwaysSucceeds(st, countryName) ==
    updateState(st, [loadingState |-> LOADING_STATES.SUCCESS])

\* the catch block of fetchHistoricalData
HistoricalFallback(st, countryName) ==
    IF countryName \in DOMAIN MockHistorical
    THEN updateState(st, Updater(countryName, processHistoricalData(MockHistorical[countryName]).val))
    ELSE updateState(st, [ loadingState |-> LOADING_STATES.ERROR,
                           error |-> NoDataFor(countryName) ])

\* the response passes `response.data && response.data.timeline` and is processed
HistoricalUsable(response) ==
    /\ response.ok
    /\ Truthy(response.data)
    /\ Truthy(Get(response.data, "timeline"))
    /\ ~processHistoricalData(response.data).threw

\* fetchHistoricalData after its await
HistoricalSettled(st, countryName, response) ==
    IF HistoricalUsable(response)
    THEN updateState(st, Updater(countryName, processHistoricalData(response.data).val))
    ELSE HistoricalFallback(st, countryName)

\* countryName && !state.historicalData[countryName], on the state of the render
NeedsHistory(countryName, closure) ==
    /\ Truthy(countryName)
    /\ \/ PropertyKey(countryName) \notin DOMAIN closure.historicalData
       \/ ~Truthy(Arr(closure.historicalData[PropertyKey(countryName)]))

\* variant: the metric buttons leave the sort order alone
SortByKept(metric, sortBy) == sortBy

\* setSortBy(metric)
SortByMetric(metric, sortBy) == metric

\* useMemo(() => sortCountries(countries, sortBy, 'desc'))
sortedCountries(countries, sortBy) ==
    sortCountries(Arr([i \in 1..Len(countries) |-> Obj(countries[i])]), Str(sortBy), Str("desc")).val

\* what the callbacks created by a render read from its state
Closure(st) ==
    [selectedCountry |-> st.selectedCountry, historicalData |-> st.historicalData, error |-> st.error]

\* the countries a user can select, and "All Countries"
SelectableCountries == {Null, Str("Kenya"), Str("Rwanda")}

\* names handed to fetchHistoricalData directly: the Dashboard never calls it
\* itself, so a direct call is the early-return case of a missing name
HistoricalNames == {Null, Str("")}

\* bodies the countries endpoint may answer with
CountriesBodies ==
    { Arr(<< Obj([country |-> Str("Kenya"), cases |-> Num(20), deaths |-> Num(3),
                  recovered |-> Num(9), active |-> Num(8), updated |-> Num(1650000000)]),
             Obj([country |-> Str("France"), cases |-> Num(50)]),
             Obj([country |-> Str("Rwanda"), cases |-> Num(7), deaths |-> Num(5),
                  recovered |-> Num(1), active |-> Num(1), updated |-> Num(1650000000)]) >>),
      Obj([message |-> Str("Internal Server Error")]) }

CountriesResponses == {Rejected} \cup {Resolved(b) : b \in CountriesBodies}

\* bodies the historical endpoint may answer with
HistoricalBodies ==
    { Obj([timeline |->
              Obj([ cases |-> Tally(<<"1/1/21">>, [k \in {"1/1/21"} |-> Num(9)]),
                    deaths |-> Tally(<<"1/1/21">>, [k \in {"1/1/21"} |-> Num(1)]),
                    recovered |-> Tally(<<"1/1/21">>, [k \in {"1/1/21"} |-> Num(3)]) ])]),
      Obj([message |-> Str("Country not found")]) }

HistoricalResponses == {Rejected} \cup {Resolved(b) : b \in HistoricalBodies}

\* a request in flight: its endpoint, the country it asks about, and whether
\* refreshData started it together with a request to the other endpoint
CountriesRequest(paired) == [kind |-> "countries", countryName |-> "", paired |-> paired]
HistoricalRequest(countryName, paired) ==
    [kind |-> "historical", countryName |-> countryName, paired |-> paired]

RequestTypes ==
    {CountriesRequest(b) : b \in BOOLEAN}
    \cup {HistoricalRequest(c, b) : c \in {"Kenya", "Rwanda", "", "null"}, b \in BOOLEAN}

RECURSIVE BagSize(_, _)
BagSize(bag, types) ==
    IF types = {} THEN 0
    ELSE LET r == CHOOSE x \in types : TRUE IN bag[r] + BagSize(bag, types \ {r})

InFlight(reqs) == BagSize(reqs, RequestTypes)

\* axios.get(...) issued
Issue(reqs, r) == [reqs EXCEPT ![r] = @ + 1]

IntervalIds == 1..MaxIntervalId

\* the clock reading when a countries request settles
HookClock == {1700000600}

NoResponse == [ok |-> FALSE, data |-> Null]

\* a call into the hook or the continuation of one: which, for which name, on
\* which HTTP response, at which clock reading
Event(type, name, response, at) ==
    [type |-> type, name |-> name, response |-> response, at |-> at]

\* the Dashboard after its first render and its mount effects: the initial fetch
\* is out and the auto-refresh interval is installed
HookInit ==
    /\ state = CountriesRequested(InitialState)
    /\ rendered = Closure(InitialState)
    /\ requests = [r \in RequestTypes |-> IF r = CountriesRequest(FALSE) THEN 1 ELSE 0]
    /\ intervals = {1}
    /\ cleanup = 1
    /\ mounted = TRUE
    /\ dash = [selectedMetric |-> DATA_TYPES.CASES, sortBy |-> DATA_TYPES.CASES]
    /\ event = Event("mount", Undef, NoResponse, 0)

(***************************************************************************)
(* The state machine: one call at a time, its outcome in ret.              *)
(***************************************************************************)
\* no second call made
NoCall == [now |-> 0, arg |-> Undef, ret |-> Returned(Undef)]

Init ==
    /\ pc = "idle"
    /\ op = "none"
    /\ arg = Undef
    /\ now = 0
    /\ ret = Returned(Undef)
    /\ caller = Undef
    /\ again = NoCall
    /\ HookInit

CallProcessCovidData ==
    /\ pc = "idle"
    /\ \E rawData \in RawInputs, clock \in Clock :
          /\ arg' = rawData
          /\ now' = clock
          /\ ret' = processCovidData(rawData, clock)
    /\ op' = "processCovidData"
    /\ pc' = "done"
    /\ caller' = arg'  \* filter and map build new arrays and objects
    /\ UNCHANGED again
    /\ UNCHANGED hookVars

\* the same caller calls processCovidData once more on the same array, at a
\* clock reading of its own
CallProcessCovidDataAgain ==
    /\ pc = "done"
    /\ op = "processCovidData"
    /\ \E clock \in Clock :
          again' = [now |-> clock, arg |-> caller, ret |-> processCovidData(caller, clock)]
    /\ pc' = "again"
    /\ UNCHANGED <<op, arg, now, ret, caller>>
    /\ UNCHANGED hookVars

CallProcessHistoricalData ==
    /\ pc = "idle"
    /\ \E historicalData \in HistoricalInputs :
          /\ arg' = historicalData
          /\ ret' = processHistoricalData(historicalData)
    /\ op' = "processHistoricalData"
    /\ pc' = "done"
    /\ caller' = arg'  \* only reads the payload
    /\ UNCHANGED <<now, again>>
    /\ UNCHANGED hookVars

CallCalculateDailyNewCases ==
    /\ pc = "idle"
    /\ \E timeSeriesData \in SeriesInputs :
          /\ arg' = timeSeriesData
          /\ ret' = calculateDailyNewCases(timeSeriesData)
    /\ op' = "calculateDailyNewCases"
    /\ pc' = "done"
    /\ caller' = arg'  \* map and spread copy, nothing is written to the series
    /\ UNCHANGED <<now, again>>
    /\ UNCHANGED hookVars

CallFilterByDateRange ==
    /\ pc = "idle"
    /\ \E in \in FilterInputs :
          /\ arg' = in
          /\ ret' = filterByDateRange(in.data, in.startDate, in.endDate)
    /\ op' = "filterByDateRange"
    /\ pc' = "done"
    /\ caller' = arg'  \* filter builds a new array
    /\ UNCHANGED <<now, again>>
    /\ UNCHANGED hookVars

CallSortCountries ==
    /\ pc = "idle"
    /\ \E in \in SortInputs :
          /\ arg' = in
          /\ ret' = sortCountries(in.countries, in.metric, in.order)
          /\ caller' = [in EXCEPT !.countries = CallerAfterSort(in.countries, in.metric, in.order)]
    /\ op' = "sortCountries"
    /\ pc' = "done"
    /\ UNCHANGED <<now, again>>
    /\ UNCHANGED hookVars

\* after an ascending sort the same caller sorts the same array descending
CallSortCountriesDescending ==
    /\ pc = "done"
    /\ op = "sortCountries"
    /\ arg.order = Str("asc")
    /\ again' = [ now |-> now,
                  arg |-> [caller EXCEPT !.order = Str("desc")],
                  ret |-> sortCountries(caller.countries, caller.metric, Str("desc")) ]
    /\ caller' = [caller EXCEPT !.countries = CallerAfterSort(caller.countries, caller.metric, Str("desc"))]
    /\ pc' = "again"
    /\ UNCHANGED <<op, arg, now, ret>>
    /\ UNCHANGED hookVars

CallCalculatePercentageChange ==
    /\ pc = "idle"
    /\ \E in \in PercentageInputs :
          /\ arg' = in
          /\ ret' = calculatePercentageChange(in.current, in.previous)
    /\ op' = "calculatePercentageChange"
    /\ pc' = "done"
    /\ caller' = arg'  \* the arguments are primitives
    /\ UNCHANGED <<now, again>>
    /\ UNCHANGED hookVars

CallIsValidCountry ==
    /\ pc = "idle"
    /\ \E countryName \in CountryNames :
          /\ arg' = countryName
          /\ ret' = isValidCountry(countryName)
    /\ op' = "isValidCountry"
    /\ pc' = "done"
    /\ caller' = arg'  \* the argument is a primitive
    /\ UNCHANGED <<now, again>>
    /\ UNCHANGED hookVars

\* the caller that validated a name hands processCovidData one raw record of that name
CallProcessCovidDataOnName ==
    /\ pc = "done"
    /\ op = "isValidCountry"
    /\ \E clock \in Clock, cases \in {Absent, Num(7)} :
          LET rawData == Arr(<<MkObj([k \in {"country", "cases"} |->
                                         IF k = "country" THEN caller ELSE cases])>>)
          IN  again' = [now |-> clock, arg |-> rawData, ret |-> processCovidData(rawData, clock)]
    /\ pc' = "again"
    /\ UNCHANGED <<op, arg, now, ret, caller>>
    /\ UNCHANGED hookVars

\* the caller has consumed the result (or the exception) and may call again
Finish ==
    /\ pc \in {"done", "again"}
    /\ pc' = "idle"
    /\ op' = "none"
    /\ arg' = Undef
    /\ now' = 0
    /\ ret' = Returned(Undef)
    /\ caller' = Undef
    /\ again' = NoCall
    /\ UNCHANGED hookVars

Next ==
    \/ CallProcessCovidData
    \/ CallProcessCovidDataAgain
    \/ CallProcessHistoricalData
    \/ CallCalculateDailyNewCases
    \/ CallFilterByDateRange
    \/ CallSortCountries
    \/ CallSortCountriesDescending
    \/ CallCalculatePercentageChange
    \/ CallIsValidCountry
    \/ CallProcessCovidDataOnName
    \/ Finish

Spec == Init /\ [][Next]_vars

(***************************************************************************)
(* The state machine of the mounted Dashboard.  A handler runs to its end  *)
(* or to its await; the continuation after an await is the step that       *)
(* settles the request.  React renders between steps (Render).             *)
(***************************************************************************)
\* clearError(), called by the Dashboard handlers when the render saw an error
ErrorCleared(st) ==
    IF Truthy(rendered.error) THEN updateState(st, [error |-> Null]) ELSE st

\* refreshData(): the countries fetch and, with a country selected, its history
Refreshed(st) ==
    IF Truthy(rendered.selectedCountry)
    THEN HistoricalRequested(CountriesRequested(st), rendered.selectedCountry)
    ELSE CountriesRequested(st)

RefreshRequests(reqs) ==
    IF Truthy(rendered.selectedCountry)
    THEN Issue(Issue(reqs, CountriesRequest(TRUE)),
               HistoricalRequest(rendered.selectedCountry.s, TRUE))
    ELSE Issue(reqs, CountriesRequest(FALSE))

RefreshFits == InFlight(RefreshRequests(requests)) <= MaxInFlight

\* handleCountrySelect(countryName): setSelectedCountry, then clearError
HandleCountrySelect ==
    /\ mounted
    /\ \E countryName \in SelectableCountries :
          LET selected == updateState(state, [selectedCountry |-> countryName])
              fetches == NeedsHistory(countryName, rendered) /\ ~NoName(countryName)
          IN  /\ fetches => InFlight(requests) < MaxInFlight
              /\ state' = ErrorCleared(IF NeedsHistory(countryName, rendered)
                                       THEN HistoricalRequested(selected, countryName)
                                       ELSE selected)
              /\ requests' = IF fetches
                             THEN Issue(requests, HistoricalRequest(countryName.s, FALSE))
                             ELSE requests
              /\ event' = Event("select", countryName, NoResponse, 0)
    /\ UNCHANGED <<rendered, intervals, cleanup, mounted, dash>>
    /\ UNCHANGED callVars

\* fetchHistoricalData(countryName), the function the hook returns, called directly
CallFetchHistoricalData ==
    /\ mounted
    /\ \E countryName \in HistoricalNames :
          /\ ~NoName(countryName) => InFlight(requests) < MaxInFlight
          /\ state' = HistoricalRequested(state, countryName)
          /\ requests' = IF NoName(countryName) THEN requests
                         ELSE Issue(requests, HistoricalRequest(PropertyKey(countryName), FALSE))
          /\ event' = Event("fetchHistoricalData", countryName, NoResponse, 0)
    /\ UNCHANGED <<rendered, intervals, cleanup, mounted, dash>>
    /\ UNCHANGED callVars

\* handleRefresh(): refreshData, then clearError
HandleRefresh ==
    /\ mounted
    /\ RefreshFits
    /\ state' = ErrorCleared(Refreshed(state))
    /\ requests' = RefreshRequests(requests)
    /\ event' = Event("refresh", Undef, NoResponse, 0)
    /\ UNCHANGED <<rendered, intervals, cleanup, mounted, dash>>
    /\ UNCHANGED callVars

\* the interval callback: refreshData when the document is visible
IntervalTick ==
    /\ intervals # {}
    /\ \E visible \in BOOLEAN :
          IF visible
          THEN /\ RefreshFits
               /\ state' = Refreshed(state)
               /\ requests' = RefreshRequests(requests)
               /\ event' = Event("tick", Undef, NoResponse, 0)
          ELSE UNCHANGED <<state, requests, event>>
    /\ UNCHANGED <<rendered, intervals, cleanup, mounted, dash>>
    /\ UNCHANGED callVars

\* the countries request settles and fetchCountriesData runs on from its await
CountriesSettle ==
    /\ \E r \in RequestTypes, response \in CountriesResponses, clock \in HookClock :
          /\ r.kind = "countries"
          /\ requests[r] > 0
          /\ requests' = [requests EXCEPT ![r] = @ - 1]
          /\ state' = CountriesSettled(state, response, clock)
          /\ event' = Event("countriesSettled", Undef, response, clock)
    /\ UNCHANGED <<rendered, intervals, cleanup, mounted, dash>>
    /\ UNCHANGED callVars

\* a historical request settles and fetchHistoricalData runs on from its await
HistoricalSettle ==
    /\ \E r \in RequestTypes, response \in HistoricalResponses :
          /\ r.kind = "historical"
          /\ requests[r] > 0
          /\ requests' = [requests EXCEPT ![r] = @ - 1]
          /\ state' = HistoricalSettled(state, r.countryName, response)
          /\ event' = Event("historicalSettled", Str(r.countryName), response, 0)
    /\ UNCHANGED <<rendered, intervals, cleanup, mounted, dash>>
    /\ UNCHANGED callVars

\* handleMetricChange(metric)
HandleMetricChange ==
    /\ mounted
    /\ \E metric \in {DATA_TYPES[k] : k \in DOMAIN DATA_TYPES} :
          dash' = [selectedMetric |-> metric, sortBy |-> SortByMetric(metric, dash.sortBy)]
    /\ UNCHANGED <<state, rendered, requests, intervals, cleanup, mounted, event>>
    /\ UNCHANGED callVars

\* the id setInterval returns: one that names no interval now
FreshId ==
    LET free == IntervalIds \ (intervals \cup {cleanup})
    IN  CHOOSE id \in free : \A other \in free : id <= other

\* variant: an effect without a cleanup
IntervalsAfterEffectNoCleanup(active, old, id) == active \cup {id}

\* the auto-refresh effect re-run: clearInterval(old), then setInterval gives id
IntervalsAfterEffect(active, old, id) == (active \ {old}) \cup {id}

\* React renders the state: the callbacks are re-created, and the auto-refresh
\* effect re-runs when refreshData is a new function (selectedCountry changed)
Render ==
    /\ mounted
    /\ Closure(state) # rendered
    /\ rendered' = Closure(state)
    /\ IF state.selectedCountry # rendered.selectedCountry
       THEN /\ IntervalIds \ (intervals \cup {cleanup}) # {}
            /\ intervals' = IntervalsAfterEffect(intervals, cleanup, FreshId)
            /\ cleanup' = FreshId
       ELSE UNCHANGED <<intervals, cleanup>>
    /\ UNCHANGED <<state, requests, mounted, dash, event>>
    /\ UNCHANGED callVars

\* the cleanup of the last effect: clearInterval(old)
IntervalsAfterUnmount(active, old) == active \ {old}

\* the component unmounts: the effect's cleanup runs; the requests still out
\* settle later into setState calls on no component, so they are tracked no longer
Unmount ==
    /\ mounted
    /\ mounted' = FALSE
    /\ intervals' = IntervalsAfterUnmount(intervals, cleanup)
    /\ cleanup' = 0
    /\ requests' = [r \in RequestTypes |-> 0]
    /\ UNCHANGED <<state, rendered, dash, event>>
    /\ UNCHANGED callVars

\* the hook under everything that calls into it
HookNext ==
    \/ HandleCountrySelect
    \/ CallFetchHistoricalData
    \/ HandleRefresh
    \/ IntervalTick
    \/ CountriesSettle
    \/ HistoricalSettle
    \/ Render
    \/ Unmount

HookSpec == Init /\ [][HookNext]_vars

\* the Dashboard under its user: metric buttons, country selections and
\* refreshes, with the continuations and renders they lead to
DashNext ==
    \/ HandleMetricChange
    \/ HandleCountrySelect
    \/ HandleRefresh
    \/ CountriesSettle
    \/ HistoricalSettle
    \/ Render

DashSpec == Init /\ [][DashNext]_vars

(***************************************************************************)
(* Properties.  Each is stated from the inputs (arg, now) and the outcome  *)
(* (ret) of the call, without the operators that compute the outcome.      *)
(***************************************************************************)
Called(f) == pc = "done" /\ op = f

IsRecord(v) == v.t = "object"

\* the names of the Country Registry
RegistryNames == {"Kenya", "Uganda", "Tanzania", "Rwanda", "Burundi", "South Sudan"}

InRegistry(raw) ==
    /\ "country" \in DOMAIN raw.o
    /\ raw.o.country.t = "string"
    /\ raw.o.country.s \in RegistryNames

\* the records of s whose country is a Registry name, in the order of s
RECURSIVE Retained(_)
Retained(s) ==
    IF s = <<>> THEN <<>>
    ELSE (IF InRegistry(Head(s)) THEN <<Head(s)>> ELSE <<>>) \o Retained(Tail(s))

\* the value a count field must show: the raw value when present and truthy, else 0
ExpectedCount(raw, field) ==
    IF /\ field \in DOMAIN raw.o
       /\ \/ raw.o[field].t = "number" /\ raw.o[field].n # 0
          \/ raw.o[field].t = "string" /\ raw.o[field].s # ""
    THEN raw.o[field]
    ELSE Num(0)

\* C1: on a sequence of records, processCovidData returns one snapshot per record
\* whose country is exactly a Registry name, none for the others, in input order.
C1_ExactSubsequence ==
    (Called("processCovidData") /\ IsArray(arg) /\ \A i \in 1..Len(arg.items) : IsRecord(arg.items[i]))
    => LET kept == Retained(arg.items)
       IN  /\ ~ret.threw
           /\ Len(ret.val) = Len(kept)
           /\ \A i \in 1..Len(kept) :
                 /\ ret.val[i].country = kept[i].o.country
                 /\ ret.val[i].cases = ExpectedCount(kept[i], "cases")

\* C1 witness: a wrong-case name and a foreign name are dropped, the two Registry
\* records are kept in input order (Uganda before Kenya, not Registry order).
C1_Witness ==
    /\ Called("processCovidData")
    /\ arg = Arr(<< Obj([country |-> Str("Uganda"), cases |-> Num(12)]),
                    Obj([country |-> Str("kenya"), cases |-> Num(14)]),
                    Obj([country |-> Str("Kenya"), cases |-> Num(11)]) >>)
    /\ ~ret.threw
    /\ Len(ret.val) = 2
    /\ ret.val[1].country = Str("Uganda")
    /\ ret.val[2].country = Str("Kenya")

\* a timeline's tally for a metric, when the payload has one
HasTimeline(h) == IsRecord(h) /\ "timeline" \in DOMAIN h.o /\ IsRecord(h.o.timeline)
HasTally(h, metric) == HasTimeline(h) /\ metric \in DOMAIN h.o.timeline.o /\ IsRecord(h.o.timeline.o[metric])

\* the tally's value for a date key, 0 when the tally or the key is missing
TallyValue(h, metric, key) ==
    IF HasTally(h, metric) /\ key \in DOMAIN h.o.timeline.o[metric].o
    THEN h.o.timeline.o[metric].o[key].n
    ELSE 0

\* C2: with a non-empty cases mapping, processHistoricalData never raises and shows 0
\* for deaths/recovered wherever that tally (or the tally's key) is missing.
C2_DefaultsMissingTally ==
    (Called("processHistoricalData") /\ HasTally(arg, "cases") /\ arg.o.timeline.o.cases.keys # <<>>)
    => /\ ~ret.threw
       /\ \A i \in 1..Len(ret.val) :
             LET key == arg.o.timeline.o.cases.keys[i]
             IN  /\ ret.val[i].deaths = Num(TallyValue(arg, "deaths", key))
                 /\ ret.val[i].recovered = Num(TallyValue(arg, "recovered", key))

\* C3: no entry point of the pipeline ever raises, whatever it is handed.
C3_NeverRaises == pc = "done" => ~ret.threw

\* C4: on a series of two or more points, calculateDailyNewCases returns as many
\* elements; element 0 carries its own cumulative values as deltas, element i>0
\* carries max(0, series[i].X - series[i-1].X).
C4_Deltas ==
    (Called("calculateDailyNewCases") /\ IsArray(arg) /\ Len(arg.items) >= 2
        /\ \A i \in 1..Len(arg.items) : IsRecord(arg.items[i]))
    => LET s == arg.items
           Floor0(n) == IF n > 0 THEN n ELSE 0
       IN  /\ ~ret.threw
           /\ Len(ret.val) = Len(s)
           /\ ret.val[1].o.newCases = s[1].o.cases
           /\ ret.val[1].o.newDeaths = s[1].o.deaths
           /\ ret.val[1].o.newRecovered = s[1].o.recovered
           /\ \A i \in 2..Len(s) :
                 /\ ret.val[i].o.newCases = Num(Floor0(s[i].o.cases.n - s[i-1].o.cases.n))
                 /\ ret.val[i].o.newDeaths = Num(Floor0(s[i].o.deaths.n - s[i-1].o.deaths.n))
                 /\ ret.val[i].o.newRecovered = Num(Floor0(s[i].o.recovered.n - s[i-1].o.recovered.n))

\* C4 witness: a series that rises and then falls: 0, 3, 0 cases give deltas 0, 3, 0.
C4_Witness ==
    /\ Called("calculateDailyNewCases")
    /\ IsArray(arg) /\ Len(arg.items) = 3
    /\ \A i \in 1..3 : IsRecord(arg.items[i])
    /\ arg.items[1].o.cases = Num(0)
    /\ arg.items[2].o.cases = Num(3)
    /\ arg.items[3].o.cases = Num(0)
    /\ arg.items[2].o.deaths = Num(2)
    /\ ~ret.threw
    /\ ret.val[2].o.newCases = Num(3)
    /\ ret.val[3].o.newCases = Num(0)
    /\ ret.val[2].o.newDeaths = Num(2 - arg.items[1].o.deaths.n)

\* C5: no delta value of any returned element, element 0 included, is negative.
C5_DeltasNeverNegative ==
    (Called("calculateDailyNewCases") /\ ~ret.threw)
    => \A i \in 1..Len(ret.val) : \A f \in {"newCases", "newDeaths", "newRecovered"} :
          ret.val[i].o[f].t = "number" /\ ret.val[i].o[f].n >= 0

\* C6: calculateDailyNewCases returns the empty sequence, and does not raise, for
\* a non-sequence and for a sequence of fewer than two elements.
C6_ShortInputEmpty ==
    (Called("calculateDailyNewCases") /\ (~IsArray(arg) \/ Len(arg.items) < 2))
    => ret = Returned(<<>>)

\* C6 witness: a series of exactly one point yields no delta series.
C6_Witness ==
    /\ Called("calculateDailyNewCases")
    /\ IsArray(arg) /\ Len(arg.items) = 1 /\ IsRecord(arg.items[1])
    /\ ret = Returned(<<>>)

\* C7: processHistoricalData yields one DailyPoint per key of the cases mapping, in
\* the order of the keys, with that key's cumulative values and the unclamped
\* active = cases - deaths - recovered.
C7_OnePointPerKey ==
    (Called("processHistoricalData") /\ HasTally(arg, "cases"))
    => LET keys == arg.o.timeline.o.cases.keys
       IN  /\ ~ret.threw
           /\ Len(ret.val) = Len(keys)
           /\ \A i \in 1..Len(keys) :
                 LET c == TallyValue(arg, "cases", keys[i])
                     d == TallyValue(arg, "deaths", keys[i])
                     r == TallyValue(arg, "recovered", keys[i])
                 IN  /\ ret.val[i].cases = Num(c)
                     /\ ret.val[i].deaths = Num(d)
                     /\ ret.val[i].recovered = Num(r)
                     /\ ret.val[i].active = Num(c - d - r)

\* C7, on payloads that carry all three tallies (the case the code handles).
C7_WhenAllTalliesPresent ==
    (HasTally(arg, "deaths") /\ HasTally(arg, "recovered")) => C7_OnePointPerKey

\* a payload with all three tallies, keys out of date order, and a negative active
C7_WhenAllTalliesPresentWitness ==
    /\ Called("processHistoricalData")
    /\ HasTally(arg, "cases") /\ HasTally(arg, "deaths") /\ HasTally(arg, "recovered")
    /\ arg.o.timeline.o.cases.keys = <<"1/2/21", "1/1/21">>
    /\ ~ret.threw
    /\ Len(ret.val) = 2
    /\ ret.val[1].active.n < 0

\* C8: processHistoricalData returns the empty sequence when the payload is absent,
\* has no timeline, or has a timeline without a cases mapping.
C8_NoTimelineEmpty ==
    (Called("processHistoricalData") /\ ~HasTally(arg, "cases"))
    => ret = Returned(<<>>)

\* C8 witness: a timeline that carries deaths and recovered but no cases mapping.
C8_Witness ==
    /\ Called("processHistoricalData")
    /\ HasTally(arg, "deaths") /\ HasTally(arg, "recovered")
    /\ "cases" \notin DOMAIN arg.o.timeline.o
    /\ ret = Returned(<<>>)

\* C9: processCovidData returns the empty sequence, and does not raise, for every
\* non-sequence (null, undefined, object, number, string) and for the empty sequence.
C9_NonSequenceEmpty ==
    (Called("processCovidData") /\ (~IsArray(arg) \/ arg = Arr(<<>>)))
    => ret = Returned(<<>>)

\* C9 witness: an object with a length property is not a sequence and yields [].
C9_Witness ==
    /\ Called("processCovidData")
    /\ arg = Obj([length |-> Num(2)])
    /\ ret = Returned(<<>>)

\* C10: in every snapshot each of the eight count fields is the raw value when it
\* is present and truthy and 0 otherwise; none is undefined or null.
C10_CountDefaults ==
    (Called("processCovidData") /\ ~ret.threw /\ IsArray(arg))
    => LET kept == Retained(arg.items)
       IN  /\ Len(ret.val) = Len(kept)
           /\ \A i \in 1..Len(kept) : \A f \in CountFields :
                 /\ ret.val[i][f] = ExpectedCount(kept[i], f)
                 /\ ~Nullish(ret.val[i][f])

\* C10 witness: one record with cases null, every other count 7: the snapshot
\* shows cases 0 and the others 7.
C10_Witness ==
    /\ Called("processCovidData")
    /\ IsArray(arg) /\ Len(arg.items) = 1 /\ IsRecord(arg.items[1])
    /\ arg.items[1].o.country = Str("Kenya")
    /\ "cases" \in DOMAIN arg.items[1].o /\ arg.items[1].o.cases = Null
    /\ "population" \in DOMAIN arg.items[1].o /\ arg.items[1].o.population = Num(7)
    /\ ~ret.threw /\ Len(ret.val) = 1
    /\ ret.val[1].cases = Num(0)
    /\ ret.val[1].population = Num(7)

\* the Registry's code, flag and color of a name
RegistryMeta(name) ==
    CASE name = "Kenya" -> [code |-> Str("KE"), flag |-> Str("flag:KE"), color |-> Str("#dc2626")]
      [] name = "Uganda" -> [code |-> Str("UG"), flag |-> Str("flag:UG"), color |-> Str("#2563eb")]
      [] name = "Tanzania" -> [code |-> Str("TZ"), flag |-> Str("flag:TZ"), color |-> Str("#16a34a")]
      [] name = "Rwanda" -> [code |-> Str("RW"), flag |-> Str("flag:RW"), color |-> Str("#7c3aed")]
      [] name = "Burundi" -> [code |-> Str("BI"), flag |-> Str("flag:BI"), color |-> Str("#ea580c")]
      [] name = "South Sudan" -> [code |-> Str("SS"), flag |-> Str("flag:SS"), color |-> Str("#0891b2")]

\* C11: in every snapshot code, flag and color are those of the matched Registry
\* entry; the raw countryInfo.iso2, the '' flag default and the '#3b82f6' color
\* default never show, whatever the raw record carries.
C11_RegistryMeta ==
    (Called("processCovidData") /\ ~ret.threw /\ IsArray(arg))
    => LET kept == Retained(arg.items)
       IN  /\ Len(ret.val) = Len(kept)
           /\ \A i \in 1..Len(kept) :
                 LET meta == RegistryMeta(kept[i].o.country.s)
                 IN  /\ ret.val[i].code = meta.code
                     /\ ret.val[i].flag = meta.flag
                     /\ ret.val[i].color = meta.color
                     /\ ret.val[i].code # Get(Get(kept[i], "countryInfo"), "iso2")
                     /\ ret.val[i].flag # Str("")
                     /\ ret.val[i].color # Str("#3b82f6")

\* C11 witness: a Tanzania record that carries countryInfo.iso2 = "ZZ" comes out
\* with the Registry's TZ.
C11_Witness ==
    /\ Called("processCovidData")
    /\ IsArray(arg) /\ Len(arg.items) = 1 /\ IsRecord(arg.items[1])
    /\ arg.items[1].o.country = Str("Tanzania")
    /\ Get(Get(arg.items[1], "countryInfo"), "iso2") = Str("ZZ")
    /\ ~ret.threw /\ Len(ret.val) = 1
    /\ ret.val[1].code = Str("TZ")
    /\ ret.val[1].color = Str("#16a34a")

\* the raw record has an updated property whose value is truthy
HasTruthyUpdated(raw) ==
    /\ "updated" \in DOMAIN raw.o
    /\ \/ raw.o.updated.t = "number" /\ raw.o.updated.n # 0
       \/ raw.o.updated.t = "string" /\ raw.o.updated.s # ""

CalledAgain(f) == pc = "again" /\ op = f

\* C13: two calls of processCovidData on the same input give sequences of equal
\* length whose snapshots agree in every field, except possibly the timestamp of
\* a record whose raw updated is absent or falsy; at the same clock reading the
\* two outputs are equal.
C13_Idempotent ==
    CalledAgain("processCovidData")
    => /\ again.ret.threw = ret.threw
       /\ (now = again.now => again.ret = ret)
       /\ (~ret.threw /\ IsArray(arg)) =>
             LET kept == Retained(arg.items)
             IN  /\ Len(ret.val) = Len(kept)
                 /\ Len(again.ret.val) = Len(kept)
                 /\ \A i \in 1..Len(kept) :
                       /\ DOMAIN again.ret.val[i] = DOMAIN ret.val[i]
                       /\ \A f \in DOMAIN ret.val[i] \ {"updated"} :
                             again.ret.val[i][f] = ret.val[i][f]
                       /\ HasTruthyUpdated(kept[i]) =>
                             again.ret.val[i].updated = ret.val[i].updated

\* C13 witness: two calls at different clock readings on a pair of records: the
\* first has no truthy updated and differs in the timestamp only, the second
\* carries a truthy updated and agrees entirely.
C13_Witness ==
    /\ CalledAgain("processCovidData")
    /\ now # again.now
    /\ IsArray(arg) /\ Len(arg.items) = 2
    /\ ~ret.threw /\ Len(ret.val) = 2 /\ Len(again.ret.val) = 2
    /\ ~HasTruthyUpdated(arg.items[1])
    /\ HasTruthyUpdated(arg.items[2])
    /\ ret.val[1].updated # again.ret.val[1].updated
    /\ ret.val[1].cases = again.ret.val[1].cases
    /\ ret.val[2] = again.ret.val[2]

\* a value is absent or falsy as a date bound
FalsyBound(v) == v.t \in {"undefined", "null"} \/ (v.t = "string" /\ v.s = "")

\* C14: filterByDateRange returns its data argument itself, neither filtered nor
\* emptied, when data is not a sequence or either bound is absent or falsy.
C14_FailOpen ==
    (Called("filterByDateRange")
        /\ (~IsArray(arg.data) \/ FalsyBound(arg.startDate) \/ FalsyBound(arg.endDate)))
    => ret = Returned(arg.data)

\* C14 witness: a three-item series with a start but no end comes back whole.
C14_Witness ==
    /\ Called("filterByDateRange")
    /\ IsArray(arg.data) /\ Len(arg.data.items) = 3
    /\ arg.startDate = DateOf(TRUE, 18630)
    /\ arg.endDate = Null
    /\ arg.data.items[1].t = "object" /\ arg.data.items[1].o.date = DateOf(TRUE, 18628)
    /\ ret = Returned(arg.data)

\* the calendar day of an item dated by a valid Date or by a date string; 0 when it has none
ItemDay(item) ==
    CASE item.o.date.t = "date" /\ item.o.date.valid -> item.o.date.day
      [] item.o.date = Str("1/1/21") -> 18628
      [] item.o.date = Str("1/2/21") -> 18629
      [] item.o.date = Str("1/3/21") -> 18630
      [] OTHER -> 0

\* the items of s dated within first..last, in the order of s
RECURSIVE Within(_, _, _)
Within(s, first, last) ==
    IF s = <<>> THEN <<>>
    ELSE (IF first <= ItemDay(Head(s)) /\ ItemDay(Head(s)) <= last THEN <<Head(s)>> ELSE <<>>)
         \o Within(Tail(s), first, last)

IsDay(v) == v.t = "date" /\ v.valid

\* C15: with a sequence of items and both bounds given, the result is exactly the
\* items dated within startDate..endDate, bounds included, in input order; it is
\* empty when startDate is after endDate.
C15_InclusiveRange ==
    (Called("filterByDateRange") /\ IsArray(arg.data)
        /\ IsDay(arg.startDate) /\ IsDay(arg.endDate)
        /\ \A i \in 1..Len(arg.data.items) : IsRecord(arg.data.items[i]))
    => /\ ret = Returned(Arr(Within(arg.data.items, arg.startDate.day, arg.endDate.day)))
       /\ arg.startDate.day > arg.endDate.day => ret = Returned(Arr(<<>>))

\* C15 witness: items dated on the start day and on the end day are both kept, in
\* input order, the item of the day after is dropped.
C15_Witness ==
    /\ Called("filterByDateRange")
    /\ arg.startDate = DateOf(TRUE, 18628)
    /\ arg.endDate = DateOf(TRUE, 18629)
    /\ IsArray(arg.data) /\ Len(arg.data.items) = 3
    /\ \A i \in 1..3 : IsRecord(arg.data.items[i])
    /\ arg.data.items[1].o.date = DateOf(TRUE, 18629)
    /\ arg.data.items[2].o.date = DateOf(TRUE, 18630)
    /\ arg.data.items[3].o.date = DateOf(TRUE, 18628)
    /\ ret = Returned(Arr(<<arg.data.items[1], arg.data.items[3]>>))

\* the metric a call sorts by: the metric argument, 'cases' when it is omitted
MetricOf(a) == IF a.metric = Undef THEN "cases" ELSE a.metric.s

\* the number an item is compared as: its field, 0 when the field is missing or falsy
KeyOf(item, field) ==
    IF field \in DOMAIN item.o /\ item.o[field].t = "number" THEN item.o[field].n ELSE 0

Occurrences(s, x) == Cardinality({i \in 1..Len(s) : s[i] = x})

IsPermutation(s, u) ==
    Len(s) = Len(u) /\ \A i \in 1..Len(s) : Occurrences(s, s[i]) = Occurrences(u, s[i])

\* C16: sortCountries returns a permutation of its input ordered by the metric
\* field, ascending when order is 'asc' and descending when order is omitted or
\* anything else, a missing or falsy field counting as 0; [] for a non-sequence.
C16_SortedPermutation ==
    Called("sortCountries")
    => /\ ~IsArray(arg.countries) => ret = Returned(<<>>)
       /\ (IsArray(arg.countries) /\ \A i \in 1..Len(arg.countries.items) : IsRecord(arg.countries.items[i]))
          => /\ ~ret.threw
             /\ IsPermutation(ret.val, arg.countries.items)
             /\ \A i, j \in 1..Len(ret.val) :
                   i < j => IF arg.order = Str("asc")
                            THEN KeyOf(ret.val[i], MetricOf(arg)) <= KeyOf(ret.val[j], MetricOf(arg))
                            ELSE KeyOf(ret.val[i], MetricOf(arg)) >= KeyOf(ret.val[j], MetricOf(arg))

\* C16 witness: order 'ASC' is not 'asc': three items with cases 2, missing, 5
\* come back as 5, 2, missing.
C16_Witness ==
    /\ Called("sortCountries")
    /\ arg.order = Str("ASC")
    /\ arg.metric = Undef
    /\ IsArray(arg.countries) /\ Len(arg.countries.items) = 3
    /\ \A i \in 1..3 : IsRecord(arg.countries.items[i])
    /\ arg.countries.items[1].o.country = Str("Rwanda")
    /\ arg.countries.items[2].o.country = Str("Kenya")
    /\ arg.countries.items[3].o.country = Str("Burundi")
    /\ ret = Returned(<<arg.countries.items[3], arg.countries.items[1], arg.countries.items[2]>>)

Reversed(s) == [i \in 1..Len(s) |-> s[Len(s) + 1 - i]]

\* the ascending and the descending sort by 'cases' of one array of records
BothOrdersByCases ==
    /\ CalledAgain("sortCountries")
    /\ MetricOf(arg) = "cases"
    /\ IsArray(arg.countries)
    /\ \A i \in 1..Len(arg.countries.items) : IsRecord(arg.countries.items[i])

\* C17 as stated: for items with pairwise distinct cases values the ascending sort
\* is the exact reverse of the descending sort.
C17_ReverseForDistinctValues ==
    (BothOrdersByCases
        /\ \A i, j \in 1..Len(arg.countries.items) :
              i # j => Get(arg.countries.items[i], "cases") # Get(arg.countries.items[j], "cases"))
    => /\ ~ret.threw /\ ~again.ret.threw
       /\ ret.val = Reversed(again.ret.val)

\* C17 amended: for items that are pairwise distinct in the number they are
\* compared as (cases, 0 when missing or falsy) the ascending sort is the exact
\* reverse of the descending sort.
C17_ReverseForDistinctKeys ==
    (BothOrdersByCases
        /\ \A i, j \in 1..Len(arg.countries.items) :
              i # j => KeyOf(arg.countries.items[i], "cases") # KeyOf(arg.countries.items[j], "cases"))
    => /\ ~ret.threw /\ ~again.ret.threw
       /\ ret.val = Reversed(again.ret.val)

\* C17 witness: cases 5, missing, 2 sort ascending to missing, 2, 5 and
\* descending to 5, 2, missing.
C17_Witness ==
    /\ BothOrdersByCases
    /\ Len(arg.countries.items) = 3
    /\ arg.countries.items[1].o.country = Str("Burundi")
    /\ arg.countries.items[2].o.country = Str("Kenya")
    /\ arg.countries.items[3].o.country = Str("Rwanda")
    /\ ret.val = <<arg.countries.items[2], arg.countries.items[3], arg.countries.items[1]>>
    /\ again.ret.val = <<arg.countries.items[1], arg.countries.items[3], arg.countries.items[2]>>

\* a returned number as numerator and denominator
IsRational(v) == v.t \in {"number", "fraction"}
Numerator(v) == IF v.t = "number" THEN v.n ELSE v.num
Denominator(v) == IF v.t = "number" THEN 1 ELSE v.den

\* C18: calculatePercentageChange(current, previous) returns 0 when previous is
\* zero or absent, without raising, and otherwise (current - previous) / previous
\* * 100, for negative previous too; (110, 100) gives 10.
C18_PercentageChange ==
    (Called("calculatePercentageChange") /\ arg.current.t = "number")
    => /\ ~ret.threw
       /\ arg.previous \in {Undef, Null, Num(0)} => ret.val = Num(0)
       /\ (arg.previous.t = "number" /\ arg.previous.n # 0)
          => /\ IsRational(ret.val)
             /\ Numerator(ret.val) * arg.previous.n
                   = (arg.current.n - arg.previous.n) * 100 * Denominator(ret.val)
       /\ (arg.current = Num(110) /\ arg.previous = Num(100)) => ret.val = Num(10)

\* C18 witness: (90, -100) gives -190, the formula applied to a negative previous.
C18_Witness ==
    /\ Called("calculatePercentageChange")
    /\ arg.current = Num(90)
    /\ arg.previous = Num(-100)
    /\ ret = Returned(Num(-190))

\* C19: isValidCountry(name) is true exactly when name is the name of a Registry
\* entry, and a raw record of that name is retained by processCovidData exactly
\* when isValidCountry(name) is true.
C19_AgreesWithFilter ==
    /\ (pc \in {"done", "again"} /\ op = "isValidCountry")
       => ret = Returned(Bool(arg.t = "string" /\ arg.s \in RegistryNames))
    /\ CalledAgain("isValidCountry")
       => /\ ~again.ret.threw
          /\ Len(again.ret.val) = (IF ret.val.b THEN 1 ELSE 0)

\* C19 witness: 'South Sudan' is valid and its record is retained.
C19_Witness ==
    /\ CalledAgain("isValidCountry")
    /\ arg = Str("South Sudan")
    /\ ret = Returned(Bool(TRUE))
    /\ Len(again.ret.val) = 1
    /\ again.ret.val[1].country = Str("South Sudan")

RECURSIVE SumOf(_, _)
SumOf(s, field) == IF s = <<>> THEN 0 ELSE Head(s).o[field].n + SumOf(Tail(s), field)

NonDecreasing(s, field) == \A i \in 2..Len(s) : s[i-1].o[field].n <= s[i].o[field].n

\* the deltas of a cumulative field add up to its last value when it never falls,
\* and to no less than that when it does
SumsToLast(in, out, field, delta) ==
    LET last == in[Len(in)].o[field].n
    IN  /\ SumOf(out, delta) >= last
        /\ NonDecreasing(in, field) => SumOf(out, delta) = last

\* C29: for a series of two or more points the newCases of the output of
\* calculateDailyNewCases sum to the last cumulative cases when the cumulative
\* cases never decrease, and to at least that when they decrease somewhere;
\* likewise for deaths and recovered.
C29_DeltasSumToLast ==
    (Called("calculateDailyNewCases") /\ IsArray(arg) /\ Len(arg.items) >= 2
        /\ \A i \in 1..Len(arg.items) : IsRecord(arg.items[i]))
    => /\ ~ret.threw
       /\ SumsToLast(arg.items, ret.val, "cases", "newCases")
       /\ SumsToLast(arg.items, ret.val, "deaths", "newDeaths")
       /\ SumsToLast(arg.items, ret.val, "recovered", "newRecovered")

\* C29 witness: cumulative cases 0, 3, 3 never decrease and the newCases 0, 3, 0
\* sum to 3, while deaths 2, 0, 2 decrease once and the newDeaths 2, 0, 2 sum to 4.
C29_Witness ==
    /\ Called("calculateDailyNewCases")
    /\ IsArray(arg) /\ Len(arg.items) = 3
    /\ \A i \in 1..3 : IsRecord(arg.items[i])
    /\ <<arg.items[1].o.cases, arg.items[2].o.cases, arg.items[3].o.cases>> = <<Num(0), Num(3), Num(3)>>
    /\ <<arg.items[1].o.deaths, arg.items[2].o.deaths, arg.items[3].o.deaths>> = <<Num(2), Num(0), Num(2)>>
    /\ ~ret.threw
    /\ SumOf(ret.val, "newCases") = 3
    /\ SumOf(ret.val, "newDeaths") = 4

(***************************************************************************)
(* Properties of the hook and the Dashboard.  event names the call or      *)
(* continuation that produced state; a step of it is one that changed      *)
(* something.                                                              *)
(***************************************************************************)
StepOf(type) ==
    /\ event'.type = type
    /\ mounted'
    /\ <<state, requests, event>>' # <<state, requests, event>>

\* the response was rejected, or its body is not an array
CountriesFailed(response) == ~response.ok \/ response.data.t # "array"

\* C21: whenever a countries request fails or answers with a body that is not an
\* array, fetchCountriesData ends with countries = processCovidData(mockData.countries),
\* loadingState SUCCESS, lastUpdated the time of the fallback and error API_ERROR;
\* no end of fetchCountriesData leaves loadingState at ERROR.
C21_FallbackToMock ==
    event.type = "countriesSettled"
    => /\ state.loadingState # LOADING_STATES.ERROR
       /\ CountriesFailed(event.response)
          => /\ state.countries = processCovidData(MockCountries, event.at).val
             /\ Len(state.countries) = Len(MockCountries.items)
             /\ state.loadingState = LOADING_STATES.SUCCESS
             /\ state.lastUpdated = NewDateNow(event.at)
             /\ state.error = Str(ERROR_MESSAGES.API_ERROR)

\* C21 witness: the request was rejected after an earlier fetch had stored the
\* API's countries; the hook now shows the two mock countries and API_ERROR.
C21_Witness ==
    /\ event.type = "countriesSettled"
    /\ event.response = Rejected
    /\ Len(state.countries) = 2
    /\ state.countries[1].country = Str("Kenya")
    /\ state.countries[1].cases = Num(11)
    /\ state.loadingState = "success"
    /\ state.error = Str("Unable to fetch data. Using cached data instead.")
    /\ state.lastUpdated.ms = event.at
    /\ rendered.error = Null

\* C22: at most one auto-refresh interval is active at any time, and none after
\* unmount.
C22_OneInterval ==
    /\ Cardinality(intervals) <= 1
    /\ ~mounted => intervals = {}
    /\ mounted => intervals = {cleanup}

\* C22 witness: selectedCountry has changed twice and been rendered, so the effect
\* has re-run twice; the one active interval is the one installed last.
C22_Witness ==
    /\ mounted
    /\ rendered.selectedCountry = Str("Rwanda")
    /\ state.selectedCountry = Str("Rwanda")
    /\ intervals = {1}
    /\ cleanup = 1
    /\ event.type = "select"

\* the body carries a timeline
HasTimelineBody(response) ==
    /\ response.ok
    /\ response.data.t = "object"
    /\ "timeline" \in DOMAIN response.data.o
    /\ response.data.o.timeline.t = "object"

\* the series fetchHistoricalData has to store for a settled request: the
\* processed body when it carries a timeline, else the processed mock payload
SeriesToStore(name, response) ==
    IF HasTimelineBody(response) THEN processHistoricalData(response.data).val
    ELSE processHistoricalData(MockHistorical[name]).val

\* C23: after fetchHistoricalData(c) completes with a body that has a timeline, or
\* fails while mockData.historicalData[c] exists, historicalData[c] is the
\* processed series, the series stored for other countries are kept, and
\* loadingState is SUCCESS.
C23_HistoricalStored ==
    [][ (StepOf("historicalSettled")
            /\ (HasTimelineBody(event'.response) \/ event'.name.s \in DOMAIN MockHistorical))
        => /\ event'.name.s \in DOMAIN state'.historicalData
           /\ state'.historicalData[event'.name.s] = SeriesToStore(event'.name.s, event'.response)
           /\ \A c \in DOMAIN state.historicalData \ {event'.name.s} :
                 c \in DOMAIN state'.historicalData
                    /\ state'.historicalData[c] = state.historicalData[c]
           /\ state'.loadingState = LOADING_STATES.SUCCESS ]_vars

\* C24: loadingState is never stuck at LOADING: once every request that was
\* issued has settled, with the component mounted, loadingState is SUCCESS or
\* ERROR (nothing but a user action or a timer tick can change it from there).
C24_NeverStuckLoading ==
    (mounted /\ InFlight(requests) = 0) => state.loadingState # LOADING_STATES.LOADING

\* C25: while a request that refreshData started together with a request to the
\* other endpoint is still out, loadingState is LOADING.
C25_LoadingWhilePairOutstanding ==
    (mounted /\ \E r \in RequestTypes : r.paired /\ requests[r] > 0)
    => state.loadingState = LOADING_STATES.LOADING

C27_SelectAndFetch ==
    [][ /\ StepOf("select")
           => LET c == event'.name
                  stored == c # Null /\ c.s \in DOMAIN state.historicalData
              IN  /\ state'.selectedCountry = c
                  /\ requests' # requests
                     => /\ c # Null /\ ~stored
                        /\ requests' = Issue(requests, HistoricalRequest(c.s, FALSE))
                        /\ state'.loadingState = LOADING_STATES.LOADING
                  /\ (c = Null \/ stored)
                     => /\ requests' = requests
                        /\ state'.loadingState = state.loadingState
        /\ (StepOf("fetchHistoricalData") /\ event'.name \in {Undef, Null, Str("")})
           => state' = state /\ requests' = requests ]_vars

\* C27 witness: Kenya was selected while the first countries request was still
\* out; a request for Kenya's history is out too and the flag shows LOADING.
C27_Witness ==
    /\ event.type = "select"
    /\ event.name = Str("Kenya")
    /\ state.selectedCountry = Str("Kenya")
    /\ requests[HistoricalRequest("Kenya", FALSE)] = 1
    /\ requests[CountriesRequest(FALSE)] = 1
    /\ state.loadingState = "loading"

\* the historical request failed: rejected, or answered without a timeline
HistoricalFailed(response) == ~HasTimelineBody(response)

\* C28: when fetchHistoricalData(c) fails and mockData.historicalData has no
\* entry for c, loadingState becomes ERROR and error a message naming c, while
\* countries, historicalData, selectedCountry and lastUpdated stay as they are;
\* loadingState becomes ERROR in no other way.
C28_ErrorOnlyWithoutMock ==
    [][ /\ (StepOf("historicalSettled") /\ HistoricalFailed(event'.response)
               /\ event'.name.s \notin DOMAIN MockHistorical)
           => /\ state'.loadingState = LOADING_STATES.ERROR
              /\ state'.error # Null
              /\ state'.error.s = ERROR_MESSAGES.NO_DATA
              /\ state'.error.for = event'.name.s
              /\ state'.countries = state.countries
              /\ state'.historicalData = state.historicalData
              /\ state'.selectedCountry = state.selectedCountry
              /\ state'.lastUpdated = state.lastUpdated
        /\ (state'.loadingState = LOADING_STATES.ERROR /\ state.loadingState # LOADING_STATES.ERROR)
           => /\ event'.type = "historicalSettled"
              /\ HistoricalFailed(event'.response)
              /\ event'.name.s \notin DOMAIN MockHistorical ]_vars

\* C28 witness: the request for Rwanda, which has no mock series, was rejected
\* after the countries had been fetched: ERROR, a message for Rwanda, and the
\* fetched countries still there.
C28_Witness ==
    /\ event.type = "historicalSettled"
    /\ event.name = Str("Rwanda")
    /\ event.response = Rejected
    /\ state.loadingState = "error"
    /\ state.error.for = "Rwanda"
    /\ state.selectedCountry = Str("Rwanda")
    /\ Len(state.countries) = 2
    /\ state.countries[1].cases = Num(20)
    /\ state.lastUpdated # Null

\* C30: sortBy equals selectedMetric, and the sequence handed to the bar chart
\* is the hook's countries in descending order of the metric the chart shows.
C30_SortedByDisplayedMetric ==
    /\ dash.sortBy = dash.selectedMetric
    /\ LET shown == sortedCountries(state.countries, dash.sortBy)
       IN  /\ IsPermutation(shown, [i \in 1..Len(state.countries) |-> Obj(state.countries[i])])
           /\ \A i, j \in 1..Len(shown) :
                 i < j => KeyOf(shown[i], dash.selectedMetric) >= KeyOf(shown[j], dash.selectedMetric)

\* C30 witness: with deaths selected the chart gets Rwanda (5 deaths) before Kenya
\* (3 deaths), the reverse of the order the API sent them in.
C30_Witness ==
    /\ dash.selectedMetric = "deaths"
    /\ Len(state.countries) = 2
    /\ state.countries[1].country = Str("Kenya")
    /\ state.countries[2].country = Str("Rwanda")
    /\ sortedCountries(state.countries, dash.sortBy)[1].o.country = Str("Rwanda")
    /\ sortedCountries(state.countries, dash.sortBy)[2].o.country = Str("Kenya")

====
